---- MODULE Spec2Model ----
(***************************************************************************)
(* Model of broot's application engine (src/src/app.rs): the stack of      *)
(* AppState, the command dispatch (App::apply_command), the pending task   *)
(* pump (App::do_pending_tasks) and the two threads of App::run: the main  *)
(* (engine) thread and the key reading thread, which talk through the two  *)
(* mpsc channels tx_keys/rx_keys and tx_quit/rx_quit and share the atomic  *)
(* counter cmd_count.                                                      *)
(* A second specification, VerbSpec, applies HelpState::execute_verb       *)
(* (src/src/help_verbs.rs) and print_path (src/src/external.rs) to inputs  *)
(* drawn from bounded sets, and the dispatch to what execute_verb returns. *)
(*                                                                         *)
(* The concrete states (BrowserState, HelpState), Command and TaskLifetime *)
(* live in files which are not part of the sources at hand: a state is a   *)
(* record holding its number of pending task units, what its apply returns *)
(* is a nondeterministic choice among the variants of AppStateCmdResult,   *)
(* a Command is the sequence of the keys it was built from.                *)
(***************************************************************************)
EXTENDS Naturals, Sequences, FiniteSets

\* ------------------------------------------------------------ bounds
MaxKeys == 2        \* key events the terminal delivers at most
MaxDepth == 3       \* deepest state stack
MaxPending == 2     \* most units of pending work a state holds
MaxStartup == 2     \* most commands given at launch (launch_args.commands)

\* ------------------------------------------------------------ values
None == "None"
Launchables == {"Printer", "Program", "SystemOpen"}
Keys == {"k"}
KeyErr == "io_error"                 \* the Err(_) item of stdin().keys()
KeyEvents == Keys \cup {KeyErr}
\* the i-th command parsed from the launch arguments: told from the others by
\* its length
StartupCommand(i) == [j \in 1..i |-> "s"]

AppStateCmdResult ==
    {"Quit", "Keep", "Launch", "DisplayError", "NewState",
     "PopStateAndReapply", "PopState", "RefreshState"}

VARIABLES
    pc,             \* where the main thread is in App::run
    states,         \* App.states: the stack, the last one is current
    quitting,       \* App.quitting
    launch_at_end,  \* App.launch_at_end
    result,         \* what run returned: "running", "Err", None or a Launchable
    cmd,            \* the local cmd of run / apply_command
    orig,           \* the command handed to the outermost apply_command call
    commands,       \* con.launch_args.commands
    idx,            \* position of the for loop over commands
    tl,             \* the TaskLifetime handed to do_pending_tasks
    pumpExit,       \* how the last do_pending_tasks loop was left
    work,           \* calls of do_pending_task made by the last do_pending_tasks
    pumpEntry,      \* units of work the active state held when it was called
    painted,        \* final displays (line 140) made by the last do_pending_tasks
    spinner,        \* whether the spinner is displayed
    screen,         \* whether the Screen of run is alive (raw mode, alternate screen)
    lastResult,     \* what the last call of AppState::apply returned
    did,            \* what the last call of apply_command did to the state
    launched,       \* the Launchables the states returned, in order
    entryDepth,     \* the depth of the stack when the outermost apply_command began
    nested,         \* the nested calls of apply_command in the current dispatch
    cmd_count,      \* the shared AtomicUsize
    keyChan,        \* messages in flight from tx_keys to rx_keys
    ackChan,        \* messages in flight from tx_quit to rx_quit
    rpc,            \* where the key reading thread is
    rkey,           \* the key event c the thread holds
    keysRead,       \* items taken from stdin().keys()
    sent,           \* keys sent on tx_keys
    acked,          \* acknowledgments received on rx_quit
    call,           \* the verb the help state executes, and what it is answered
    path,           \* the bytes of the path handed to print_path or to the opener
    file_export_path, \* con.launch_args.file_export_path
    exportFile,     \* the file at file_export_path
    vres,           \* what execute_verb or print_path returned
    vpc             \* which of the two is called, and whether it has returned

engineVars == <<pc, states, quitting, launch_at_end, result, cmd, orig, commands,
                idx, tl, pumpExit, work, pumpEntry, painted, spinner, screen, lastResult,
                did, launched, entryDepth, nested>>
relayVars == <<rpc, rkey, keysRead, sent, acked>>
sharedVars == <<cmd_count, keyChan, ackChan>>
verbVars == <<call, path, file_export_path, exportFile, vres, vpc>>
vars == <<engineVars, relayVars, sharedVars, verbVars>>

\* ------------------------------------------------------------ helpers
Top(st) == st[Len(st)]
Pop(st) == SubSeq(st, 1, Len(st) - 1)
Push(st, s) == Append(st, s)
NewAppState(p) == [pending |-> p]
SetPending(st, p) == [st EXCEPT ![Len(st)] = [@ EXCEPT !.pending = p]]

\* AppState::has_pending_tasks and AppState::refresh of the active state
HasPendingTasks(st) == Top(st).pending > 0
Refresh(s) == <<"r">>
\* Command::new and Command::add_key
NewCommand == <<>>
AddKey(c, k) == Append(c, k)
\* the command a state gives with NewState
NewStateCommand == <<"n">>

\* TaskLifetime (task_sync.rs)
Unlimited == [kind |-> "Unlimited", snap |-> 0]
Limited(count) == [kind |-> "Limited", snap |-> count]
NoToken == [kind |-> "NoToken", snap |-> 0]
IsExpired(t, count) == t.kind = "Limited" /\ count # t.snap

Spawned == rpc # "unspawned"
\* the main thread has left run: rx_keys and tx_quit are dropped
MainGone == pc \in {"returned", "failed"}
\* the key thread has ended: tx_keys and rx_quit are dropped
RelayGone == rpc \in {"done", "panicked"}

\* a Launchable which is none of the three
NoLaunch == [kind |-> "none"]
\* no call of execute_verb or print_path is looked at
NoCall ==
    [execution |-> "", match_error |-> FALSE, exec_token |-> <<>>,
     browser |-> "none", env |-> <<>>]
NoResult == [err |-> FALSE, result |-> "none", launchable |-> NoLaunch]
NoFile == [exists |-> FALSE, content |-> <<>>]

Init ==
    /\ pc = "start"
    /\ states = <<>>
    /\ quitting = FALSE
    /\ launch_at_end = None
    /\ result = "running"
    /\ cmd = NewCommand
    /\ orig = NewCommand
    /\ \E n \in 0..MaxStartup : commands = [i \in 1..n |-> StartupCommand(i)]
    /\ idx = 1
    /\ tl = NoToken
    /\ pumpExit = "none"
    /\ work = 0
    /\ pumpEntry = 0
    /\ painted = 0
    /\ spinner = FALSE
    /\ screen = FALSE
    /\ lastResult = None
    /\ did = {}
    /\ launched = <<>>
    /\ entryDepth = 0
    /\ nested = 0
    /\ cmd_count = 0
    /\ keyChan = <<>>
    /\ ackChan = <<>>
    /\ rpc = "unspawned"
    /\ rkey = None
    /\ keysRead = 0
    /\ sent = 0
    /\ acked = 0
    /\ call = NoCall
    /\ path = <<>>
    /\ file_export_path = None
    /\ exportFile = NoFile
    /\ vres = NoResult
    /\ vpc = "idle"

\* ------------------------------------------------------------ the end of run
\* a Screen which outlives run
ScreenAfterRun_Kept == TRUE

\* the local screen is dropped when run ends (Drop for Screen, and those of
\* the AlternateScreen and RawTerminal it owns)
ScreenAfterRun == FALSE

\* run takes the App by value: when it ends, the App, the screen, the locals
\* and the main thread's ends of the channels are dropped. The record of the
\* last dispatch goes with them when run ends by an error.
Dropped ==
    /\ states' = <<>>
    /\ cmd' = NewCommand
    /\ tl' = NoToken
    /\ spinner' = FALSE
    /\ screen' = ScreenAfterRun
    /\ keyChan' = <<>>
    /\ UNCHANGED <<commands, idx>>

\* the record of the last call of do_pending_tasks is cleared when the main
\* thread goes on from what follows the call
PumpForgotten ==
    /\ pumpExit' = "none"
    /\ work' = 0
    /\ pumpEntry' = 0
    /\ painted' = 0

\* run leaves with an error (a ? on an io::Result, or a ProgramError)
Fail ==
    /\ pc' = "failed"
    /\ result' = "Err"
    /\ launch_at_end' = None
    /\ Dropped
    /\ PumpForgotten
    /\ lastResult' = None
    /\ did' = {}
    /\ orig' = NewCommand
    /\ entryDepth' = 0
    /\ nested' = 0

\* run returns Ok(self.launch_at_end.take())
ReturnOk ==
    /\ pc' = "returned"
    /\ result' = launch_at_end
    /\ launch_at_end' = None
    /\ Dropped
    /\ UNCHANGED <<pumpExit, work, pumpEntry, painted, lastResult, did, orig,
                   entryDepth, nested>>

\* the record of the last dispatch is cleared when the main thread goes on to
\* the next turn of its loop
DispatchForgotten ==
    /\ lastResult' = None
    /\ did' = {}
    /\ orig' = NewCommand
    /\ entryDepth' = 0
    /\ nested' = 0

\* ------------------------------------------------------------ run: the initial state
\* Screen::new, BrowserState::new, push
Start ==
    /\ pc = "start"
    /\ \/ /\ \E p \in 0..MaxPending : states' = Push(states, NewAppState(p))
          /\ screen' = TRUE
          /\ pc' = "startup"
          /\ UNCHANGED <<launch_at_end, result, cmd, orig, commands, idx, tl,
                         pumpExit, work, pumpEntry, painted, spinner, lastResult,
                         did, entryDepth, nested, keyChan>>
       \/ Fail
    /\ UNCHANGED <<quitting, launched>>
    /\ UNCHANGED <<relayVars, cmd_count, ackChan>>
    /\ UNCHANGED verbVars

\* ------------------------------------------------------------ run: launch commands
\* the for loop takes the next launch command and dispatches it
StartupDispatch ==
    /\ pc = "startup"
    /\ idx <= Len(commands)
    /\ cmd' = commands[idx]
    /\ orig' = commands[idx]
    /\ pc' = "apply"
    /\ entryDepth' = Len(states)
    /\ nested' = 0
    /\ UNCHANGED <<states, quitting, launch_at_end, result, commands, idx, tl,
                   pumpExit, work, pumpEntry, painted, spinner, screen, lastResult, did,
                   launched>>
    /\ UNCHANGED <<relayVars, sharedVars>>
    /\ UNCHANGED verbVars

\* TaskLifetime::unlimited() of the launch commands' pump
StartupToken == Unlimited

\* a token bound to the counter's first value instead of its current one
InteractiveToken_Stale(count) == Limited(0)

\* the token of the pump of the interactive loop
InteractiveToken(count) == Limited(count)

\* do_pending_tasks, from its call to the test of has_task
PumpEnter(t) ==
    /\ states # <<>>
    /\ tl' = t
    /\ pumpExit' = "none"
    /\ work' = 0
    /\ pumpEntry' = Top(states).pending
    /\ painted' = 0
    /\ pc' = IF HasPendingTasks(states) THEN "pump_loop" ELSE "pump_end"
    /\ UNCHANGED <<states, quitting, launch_at_end, result, cmd, commands, idx,
                   spinner, screen, launched>>
    /\ UNCHANGED <<relayVars, sharedVars>>

StartupPump ==
    /\ pc = "startup_pump"
    /\ PumpEnter(StartupToken)
    /\ UNCHANGED <<lastResult, did, orig, entryDepth, nested>>
    /\ UNCHANGED verbVars

\* a loop which does not look at the token
PumpStops_Never(t, count) == FALSE

\* if tl.is_expired() { break; }
PumpStops(t, count) == IsExpired(t, count)

\* a loop left after the first unit of work
PumpGoesOn_Never(st) == FALSE

\* if !self.state().has_pending_tasks() { break; }
PumpGoesOn(st) == HasPendingTasks(st)

\* one turn of the loop of do_pending_tasks
PumpIter ==
    /\ pc = "pump_loop"
    /\ states # <<>>
    /\ \/ /\ spinner' = TRUE
          /\ IF PumpStops(tl, cmd_count)
             THEN /\ pumpExit' = "expired"
                  /\ pc' = "pump_end"
                  /\ UNCHANGED <<states, work>>
             ELSE /\ states' = SetPending(states, Top(states).pending - 1)
                  /\ work' = work + 1
                  /\ IF PumpGoesOn(states')
                     THEN /\ pc' = "pump_loop"
                          /\ UNCHANGED pumpExit
                     ELSE /\ pc' = "pump_end"
                          /\ pumpExit' = "done"
          /\ UNCHANGED <<pumpEntry, painted, screen>>
          /\ UNCHANGED <<launch_at_end, result, cmd, orig, commands, idx, tl,
                         lastResult, did, entryDepth, nested, keyChan>>
       \/ Fail
    /\ UNCHANGED <<quitting, launched>>
    /\ UNCHANGED <<relayVars, cmd_count, ackChan>>
    /\ UNCHANGED verbVars

\* a spinner which is left displayed
SpinnerAtEnd_Left(has_task, sp) == sp

\* if has_task { ...; screen.write_spinner(false)?; }
SpinnerAtEnd(has_task, sp) == IF has_task THEN FALSE ELSE sp

\* the end of do_pending_tasks: the spinner is removed, the state displayed
PumpEnd ==
    /\ pc = "pump_end"
    /\ states # <<>>
    /\ \/ /\ spinner' = SpinnerAtEnd(pumpEntry > 0, spinner)
          /\ painted' = painted + 1
          /\ pc' = IF Spawned THEN "recv" ELSE "startup_check"
          /\ tl' = NoToken
          /\ UNCHANGED <<states, launch_at_end, result, cmd, orig, commands, idx,
                         pumpExit, work, pumpEntry, screen, lastResult, did,
                         entryDepth, nested, keyChan>>
       \/ Fail
    /\ UNCHANGED <<quitting, launched>>
    /\ UNCHANGED <<relayVars, cmd_count, ackChan>>
    /\ UNCHANGED verbVars

\* a for loop which goes on when quitting is set
StartupStops_Never(q) == FALSE

\* if self.quitting { return Ok(self.launch_at_end.take()); }
StartupStops(q) == q

\* the test of quitting which ends the turn of the for loop
StartupCheck ==
    /\ pc = "startup_check"
    /\ IF StartupStops(quitting)
       THEN ReturnOk
       ELSE /\ idx' = idx + 1
            /\ pc' = "startup"
            /\ DispatchForgotten
            /\ PumpForgotten
            /\ UNCHANGED <<states, launch_at_end, result, cmd, commands, tl,
                           spinner, screen, keyChan>>
    /\ UNCHANGED <<quitting, launched>>
    /\ UNCHANGED <<relayVars, cmd_count, ackChan>>
    /\ UNCHANGED verbVars

\* ------------------------------------------------------------ apply_command
\* where apply_command returns to
ReturnPc == IF Spawned THEN "ack" ELSE "startup_pump"

\* apply_command reaches the call of apply on the active state (mut_state
\* panics on an empty stack)
ApplyPre ==
    /\ pc = "apply"
    /\ states # <<>>

\* what no call of apply_command touches
ApplyFrame == UNCHANGED <<relayVars, cmd_count, ackChan>>

\* a call of apply_command which ends at its last lines: the state's apply
\* returned r, the branch of r left the stack st, the command c, the flag q,
\* the launchable la and did d; the last writes succeed (ok) or fail
Finish(ok, r, st, c, q, la, d) ==
    /\ quitting' = q
    /\ IF ok
       THEN /\ pc' = ReturnPc
            /\ lastResult' = r
            /\ states' = st
            /\ cmd' = c
            /\ launch_at_end' = la
            /\ did' = d
            /\ UNCHANGED <<result, orig, commands, idx, tl,
                           pumpExit, work, pumpEntry, painted, spinner, screen,
                           entryDepth, nested, keyChan>>
       ELSE Fail
    /\ ApplyFrame

\* the first writes of apply_command, or the state's apply, fail
ApplyFail ==
    /\ ApplyPre
    /\ Fail
    /\ UNCHANGED <<quitting, launched>>
    /\ ApplyFrame
    /\ UNCHANGED verbVars

\* a Quit branch which does not set quitting
QuitSetsQuitting_Forgotten == FALSE

\* self.quitting = true of the Quit branch
QuitSetsQuitting == TRUE

ApplyQuit ==
    /\ ApplyPre
    /\ \E p \in 0..MaxPending, ok \in BOOLEAN :
          Finish(ok, "Quit", SetPending(states, p), cmd,
                 quitting \/ QuitSetsQuitting, launch_at_end, {})
    /\ UNCHANGED launched
    /\ UNCHANGED verbVars

\* a Launch branch which drops the launchable
StoreLaunch_Lost(a) == None

\* the launchable stored by the Launch branch
StoreLaunch(a) == a

\* a Launch branch which does not set quitting
LaunchSetsQuitting_Forgotten == FALSE

\* self.quitting = true of the Launch branch
LaunchSetsQuitting == TRUE

ApplyLaunch ==
    /\ ApplyPre
    /\ \E p \in 0..MaxPending, ok \in BOOLEAN, a \in Launchables :
          /\ Finish(ok, "Launch", SetPending(states, p), cmd,
                    quitting \/ LaunchSetsQuitting, StoreLaunch(a), {})
          /\ launched' = Append(launched, a)
    /\ UNCHANGED verbVars

\* a NewState branch which keeps the command it was given
AfterNewState_Kept(c, nc) == c

\* cmd = new_cmd of the NewState branch
AfterNewState(c, nc) == nc

ApplyNewState ==
    /\ ApplyPre
    /\ Len(states) < MaxDepth
    /\ \E p, np \in 0..MaxPending, ok \in BOOLEAN :
          Finish(ok, "NewState", Push(SetPending(states, p), NewAppState(np)),
                 AfterNewState(cmd, NewStateCommand), quitting, launch_at_end,
                 {"push", "write_status"})
    /\ UNCHANGED launched
    /\ UNCHANGED verbVars

\* a RefreshState branch which keeps the command it was given
AfterRefresh_Kept(c, st) == c

\* cmd = self.mut_state().refresh(screen, con) of the RefreshState branch
AfterRefresh(c, st) == Refresh(Top(st))

ApplyRefreshState ==
    /\ ApplyPre
    /\ \E p \in 0..MaxPending, ok \in BOOLEAN :
          Finish(ok, "RefreshState", SetPending(states, p),
                 AfterRefresh(cmd, SetPending(states, p)), quitting, launch_at_end,
                 {"refresh"})
    /\ UNCHANGED launched
    /\ UNCHANGED verbVars

\* a pop which does not look at the length of the stack
PopIsQuit_Never(st) == FALSE

\* self.states.len() == 1 of the two pop branches
PopIsQuit(st) == Len(st) = 1

\* a last pop which forgets to quit
LastPopQuitting_Forgotten == FALSE

\* self.quitting = true of the two pop branches
LastPopQuitting == TRUE

\* a pop which keeps the command it was given
AfterPop_Kept(c, st) == c

\* cmd = self.mut_state().refresh(screen, con), st being the stack once popped
AfterPop(c, st) == Refresh(Top(st))

ApplyPopState ==
    /\ ApplyPre
    /\ IF PopIsQuit(states)
       THEN \E p \in 0..MaxPending, ok \in BOOLEAN :
               Finish(ok, "PopState", SetPending(states, p), cmd,
                      quitting \/ LastPopQuitting, launch_at_end, {})
       ELSE \E ok \in BOOLEAN :
               Finish(ok, "PopState", Pop(states),
                      IF Pop(states) = <<>> THEN cmd ELSE AfterPop(cmd, Pop(states)),
                      quitting, launch_at_end, {"pop", "refresh", "write_status"})
    /\ UNCHANGED launched
    /\ UNCHANGED verbVars

\* a nested apply_command given a fresh command
Reapplied_Fresh(c) == NewCommand

\* the command given to the nested apply_command
Reapplied(c) == c

\* a redispatch which is not preceded by a pop
ReapplyStack_Kept(st) == st

\* self.states.pop() before the nested apply_command
ReapplyStack(st) == Pop(st)

ApplyPopStateAndReapply ==
    /\ ApplyPre
    /\ IF PopIsQuit(states)
       THEN \E p \in 0..MaxPending, ok \in BOOLEAN :
               Finish(ok, "PopStateAndReapply", SetPending(states, p), cmd,
                      quitting \/ LastPopQuitting, launch_at_end, {})
       ELSE /\ states' = ReapplyStack(states)
            /\ cmd' = Reapplied(cmd)
            /\ nested' = nested + 1
            /\ lastResult' = "PopStateAndReapply"
            /\ did' = {"pop", "reapply"}
            /\ pc' = "apply"
            /\ UNCHANGED <<quitting, launch_at_end, result, orig, commands, idx, tl,
                           pumpExit, work, pumpEntry, painted, spinner, screen,
                           entryDepth, keyChan>>
            /\ ApplyFrame
    /\ UNCHANGED launched
    /\ UNCHANGED verbVars

\* a DisplayError branch which quits
AfterDisplayError_Quit(q) == TRUE

\* the DisplayError branch writes the message and no field of the App
AfterDisplayError(q) == q

ApplyDisplayError ==
    /\ ApplyPre
    /\ \E p \in 0..MaxPending, ok \in BOOLEAN :
          Finish(ok, "DisplayError", SetPending(states, p), cmd,
                 AfterDisplayError(quitting), launch_at_end, {"write_status_err"})
    /\ UNCHANGED launched
    /\ UNCHANGED verbVars

ApplyKeep ==
    /\ ApplyPre
    /\ \E p \in 0..MaxPending, ok \in BOOLEAN :
          Finish(ok, "Keep", SetPending(states, p), cmd, quitting, launch_at_end,
                 {"write_status"})
    /\ UNCHANGED launched
    /\ UNCHANGED verbVars

ApplyCommand ==
    \/ ApplyFail
    \/ ApplyQuit
    \/ ApplyLaunch
    \/ ApplyNewState
    \/ ApplyRefreshState
    \/ ApplyPopState
    \/ ApplyPopStateAndReapply
    \/ ApplyDisplayError
    \/ ApplyKeep

\* ------------------------------------------------------------ run: interactive loop
\* the channels and the counter are created, the thread spawned, the first
\* lines written
SpawnRelay ==
    /\ pc = "startup"
    /\ idx > Len(commands)
    /\ rpc' = "read"
    /\ \/ /\ pc' = "loop_top"
          /\ UNCHANGED <<states, launch_at_end, result, cmd, orig, commands, idx, tl,
                         pumpExit, work, pumpEntry, painted, spinner, screen,
                         lastResult, did, entryDepth, nested, keyChan>>
       \/ Fail
    /\ UNCHANGED <<quitting, launched>>
    /\ UNCHANGED <<rkey, keysRead, sent, acked, cmd_count, ackChan>>
    /\ UNCHANGED verbVars

\* the top of the loop: the pump, unless quitting
\* a loop which pumps at every turn
PumpSkipped_Never(q) == FALSE

\* if !self.quitting { self.do_pending_tasks(...)?; }
PumpSkipped(q) == q

LoopTop ==
    /\ pc = "loop_top"
    /\ IF PumpSkipped(quitting)
       THEN /\ pc' = "recv"
            /\ UNCHANGED <<states, quitting, launch_at_end, result, cmd, commands,
                           idx, tl,
                           pumpExit, work, pumpEntry, painted, spinner, screen, launched>>
            /\ UNCHANGED <<relayVars, sharedVars>>
       ELSE PumpEnter(InteractiveToken(cmd_count))
    /\ UNCHANGED <<lastResult, did, orig, entryDepth, nested>>
    /\ UNCHANGED verbVars

\* rx_keys.recv() gives a key event: c? and cmd.add_key, then the dispatch
RecvKey ==
    /\ pc = "recv"
    /\ keyChan # <<>>
    /\ IF Head(keyChan) = KeyErr
       THEN Fail
       ELSE /\ keyChan' = Tail(keyChan)
            /\ cmd' = AddKey(cmd, Head(keyChan))
            /\ orig' = AddKey(cmd, Head(keyChan))
            /\ entryDepth' = Len(states)
            /\ nested' = 0
            /\ pc' = "apply"
            /\ PumpForgotten
            /\ UNCHANGED <<states, launch_at_end, result, commands, idx, tl,
                           spinner, screen, lastResult, did>>
    /\ UNCHANGED <<quitting, launched>>
    /\ UNCHANGED <<relayVars, cmd_count, ackChan>>
    /\ UNCHANGED verbVars

\* a closed key channel taken as an error
ClosedIsError_Yes == TRUE

\* Err(_) => { break; }: the loop is left, no error is made of it
ClosedIsError == FALSE

\* rx_keys.recv() gives Err: the sender is dropped and nothing is in flight
RecvClosed ==
    /\ pc = "recv"
    /\ keyChan = <<>>
    /\ RelayGone
    /\ IF ClosedIsError THEN Fail ELSE ReturnOk
    /\ UNCHANGED <<quitting, launched>>
    /\ UNCHANGED <<relayVars, cmd_count, ackChan>>
    /\ UNCHANGED verbVars

\* an acknowledgment which never tells the thread to stop
AckValue_Never(q) == FALSE

\* the value sent on tx_quit
AckValue(q) == q

\* a loop which answers the thread only when it quits
AckSent_OnlyQuit(q) == q

\* every dispatch which returns is followed by the send on tx_quit
AckSent(q) == TRUE

\* tx_quit.send(self.quitting).unwrap(), the last line of the loop: the record
\* of the dispatch is kept when it is the one which ends run
SendAck ==
    /\ pc = "ack"
    /\ ~RelayGone
    /\ ackChan' = IF AckSent(quitting)
                  THEN Append(ackChan, AckValue(quitting))
                  ELSE ackChan
    /\ pc' = "loop_top"
    /\ IF quitting
       THEN UNCHANGED <<lastResult, did, orig, entryDepth, nested>>
       ELSE DispatchForgotten
    /\ UNCHANGED <<states, quitting, launch_at_end, result, cmd, commands, idx, tl,
                   pumpExit, work, pumpEntry, painted, spinner, screen, launched>>
    /\ UNCHANGED <<relayVars, cmd_count, keyChan>>
    /\ UNCHANGED verbVars

\* ------------------------------------------------------------ the key reading thread
\* keys.next() gives a key event
RelayRead ==
    /\ rpc = "read"
    /\ keysRead < MaxKeys
    /\ \E c \in KeyEvents : rkey' = c
    /\ keysRead' = keysRead + 1
    /\ rpc' = "count"
    /\ UNCHANGED <<sent, acked, engineVars, sharedVars>>
    /\ UNCHANGED verbVars

\* keys.next() gives None: the for loop and the thread end
RelayEof ==
    /\ rpc = "read"
    /\ rpc' = "done"
    /\ UNCHANGED <<rkey, keysRead, sent, acked, engineVars, sharedVars>>
    /\ UNCHANGED verbVars

\* a key which is not counted
CountKey_Skip(n) == n

\* key_count.fetch_add(1, Ordering::SeqCst)
CountKey(n) == n + 1

RelayCount ==
    /\ rpc = "count"
    /\ cmd_count' = CountKey(cmd_count)
    /\ rpc' = "send"
    /\ UNCHANGED <<rkey, keysRead, sent, acked, engineVars, keyChan, ackChan>>
    /\ UNCHANGED verbVars

\* a thread which reads the next key without waiting for the acknowledgment
AfterSend_NoWait == "read"

\* where the thread goes once the key is sent
AfterSend == "wait_ack"

\* tx_keys.send(c).unwrap()
RelaySend ==
    /\ rpc = "send"
    /\ IF MainGone
       THEN /\ rpc' = "panicked"
            /\ UNCHANGED <<keyChan, sent>>
       ELSE /\ keyChan' = Append(keyChan, rkey)
            /\ sent' = sent + 1
            /\ rpc' = AfterSend
    /\ UNCHANGED <<rkey, keysRead, acked, engineVars, cmd_count, ackChan>>
    /\ UNCHANGED verbVars

\* a thread which goes on reading whatever the acknowledgment
AckEnds_Never(quit) == FALSE

\* a thread which ends at any acknowledgment
AckEnds_Always(quit) == TRUE

\* if quit { return; }
AckEnds(quit) == quit

\* rx_quit.recv().unwrap() gives the flag
RelayRecvAck ==
    /\ rpc = "wait_ack"
    /\ ackChan # <<>>
    /\ ackChan' = Tail(ackChan)
    /\ acked' = acked + 1
    /\ rpc' = IF AckEnds(Head(ackChan)) THEN "done" ELSE "read"
    /\ UNCHANGED <<rkey, keysRead, sent, engineVars, cmd_count, keyChan>>
    /\ UNCHANGED verbVars

\* rx_quit.recv() gives Err, the main thread being gone: unwrap panics
RelayAckClosed ==
    /\ rpc = "wait_ack"
    /\ ackChan = <<>>
    /\ MainGone
    /\ rpc' = "panicked"
    /\ UNCHANGED <<rkey, keysRead, sent, acked, engineVars, sharedVars>>
    /\ UNCHANGED verbVars

Engine ==
    \/ Start
    \/ StartupDispatch
    \/ ApplyCommand
    \/ StartupPump
    \/ PumpIter
    \/ PumpEnd
    \/ StartupCheck
    \/ SpawnRelay
    \/ LoopTop
    \/ RecvKey
    \/ RecvClosed
    \/ SendAck

Relay ==
    \/ RelayRead
    \/ RelayEof
    \/ RelayCount
    \/ RelaySend
    \/ RelayRecvAck
    \/ RelayAckClosed

Next == Engine \/ Relay

Spec == Init /\ [][Next]_vars

\* Both threads are scheduled as long as they can run; nothing says that the
\* terminal ever delivers a key (or an end of input), so the read is not fair.
FairSpec ==
    /\ Spec
    /\ WF_vars(Engine)
    /\ WF_vars(RelayCount \/ RelaySend \/ RelayRecvAck \/ RelayAckClosed)

\* The least of that scheduling which the end of run needs: the main thread
\* sends its acknowledgment, goes round its loop and sees the closed channel,
\* and the key thread receives the acknowledgment.
QuitFairSpec ==
    /\ Spec
    /\ WF_vars(SendAck \/ LoopTop \/ RecvClosed)
    /\ WF_vars(RelayRecvAck)

\* ------------------------------------------------------------ the help state's verbs
MaxPathLen == 2     \* longest path, in bytes

\* a letter, a line feed, and a byte which no UTF-8 text holds
PathBytes == {"a", "\n", "xFF"}
Paths == UNION {[1..n -> PathBytes] : n \in 0..MaxPathLen}

\* Path::to_string_lossy: the characters of the path, U+FFFD for what is not
\* valid UTF-8
ToStringLossy(p) == [i \in 1..Len(p) |-> IF p[i] = "xFF" THEN "U+FFFD" ELSE p[i]]

\* the bytes which are written for a string
RECURSIVE Bytes(_)
Bytes(s) ==
    IF s = <<>>
    THEN <<>>
    ELSE (IF Head(s) = "U+FFFD" THEN <<"xEF", "xBF", "xBD">> ELSE <<Head(s)>>)
         \o Bytes(Tail(s))

\* Launchable::printer, Launchable::opener
Printer(to_print) == [kind |-> "Printer", to_print |-> to_print]
Opener(p) == [kind |-> "SystemOpen", path |-> p]

\* io::Result<AppStateCmdResult>
OkResult(r) == [err |-> FALSE, result |-> r, launchable |-> NoLaunch]
OkLaunch(l) == [err |-> FALSE, result |-> "Launch", launchable |-> l]
ErrResult == [err |-> TRUE, result |-> "none", launchable |-> NoLaunch]

\* s.starts_with(p)
StartsWith(s, p) == Len(s) >= Len(p) /\ SubSeq(s, 1, Len(p)) = p

\* resolve_env_variable: env is the environment
ResolveEnvVariable(s, env) ==
    IF StartsWith(s, "$")
    THEN IF SubSeq(s, 2, Len(s)) \in DOMAIN env
         THEN env[SubSeq(s, 2, Len(s))]
         ELSE s
    ELSE s

\* Launchable::program
LaunchableProgram(parts, env) ==
    IF parts = <<>>
    THEN ErrResult
    ELSE OkLaunch([kind |-> "Program",
                   exe |-> ResolveEnvVariable(Head(parts), env),
                   args |-> [i \in 1..(Len(parts) - 1)
                               |-> ResolveEnvVariable(parts[i + 1], env)]])

\* AppStateCmdResult::from_optional_state
FromOptionalState(os) ==
    CASE os = "OkSome" -> OkResult("NewState")
      [] os = "OkNone" -> OkResult("Keep")
      [] os = "Err" -> OkResult("DisplayError")

\* what the three steps of the export can do: open, write, or both succeed
IoOutcomes == {"ok", "open_fails", "write_fails"}

\* the line print_path writes: writeln!(&f, "{}", path)
ExportLine(p) == Bytes(ToStringLossy(p)) \o <<"\n">>

\* a file opened to be overwritten from its start
Opened_Truncated(file) == [exists |-> TRUE, content |-> <<>>]

\* OpenOptions::new().create(true).append(true).open(output_path)
Opened(file) == [exists |-> TRUE, content |-> file.content]

\* print_path: the export file afterwards; a write which fails has written the
\* first k bytes of the line
PrintPathFile(file, p, fep, io, k) ==
    IF fep = None \/ io = "open_fails"
    THEN file
    ELSE [Opened(file) EXCEPT !.content =
              @ \o (IF io = "ok" THEN ExportLine(p) ELSE SubSeq(ExportLine(p), 1, k))]

\* print_path: what it returns
PrintPathResult(p, fep, io) ==
    IF fep # None
    THEN IF io = "ok" THEN OkResult("Quit") ELSE ErrResult
    ELSE OkLaunch(Printer(ToStringLossy(p)))

\* a help state which takes only ":toggle" itself for a toggle
IsToggle_Exact(execution) == execution = ":toggle"

\* verb.execution.starts_with(":toggle")
IsToggle(execution) == StartsWith(execution, ":toggle")

\* HelpState::execute_verb; p is Conf::default_location()
ExecuteVerb(c, p, fep, io) ==
    IF c.match_error
    THEN OkResult("DisplayError")
    ELSE CASE c.execution = ":back" -> OkResult("PopState")
           [] c.execution \in {":focus", ":parent"} -> FromOptionalState(c.browser)
           [] c.execution = ":help" -> OkResult("Keep")
           [] c.execution = ":open" -> OkLaunch(Opener(p))
           [] c.execution = ":print_path" -> PrintPathResult(p, fep, io)
           [] c.execution = ":quit" -> OkResult("Quit")
           [] OTHER -> IF IsToggle(c.execution)
                       THEN OkResult("PopStateAndReapply")
                       ELSE LaunchableProgram(c.exec_token, c.env)

\* the verbs of the help state, and two which are none of its own
Executions ==
    {":back", ":focus", ":parent", ":help", ":open", ":print_path", ":quit",
     ":toggle_hidden", ":toggle", ":toggl", "$E {file}"}

\* what verb.exec_token gives
ExecTokens == {<<>>, <<"$E">>, <<"sh", "$E">>}

\* the environment: E is set, or is not
Envs == {[E |-> "vi"], [F |-> "vi"]}

\* what BrowserState::new gives
BrowserResults == {"OkSome", "OkNone", "Err"}

\* the calls looked at: what the verb does not use is left at one value
Calls ==
    {c \in [execution : Executions, match_error : BOOLEAN, exec_token : ExecTokens,
            browser : BrowserResults, env : Envs] :
        /\ (c.execution \notin {":focus", ":parent"} => c.browser = "OkSome")
        /\ (c.execution \notin {":toggl", "$E {file}"}
              => (c.exec_token = <<>> /\ c.env = [E |-> "vi"]))}

ExportFiles == {NoFile, [exists |-> TRUE, content |-> <<"a", "\n">>]}

\* execute_verb: the export file afterwards (only ":print_path" touches it)
ExecuteVerbFile(c, file, p, fep, io, k) ==
    IF ~c.match_error /\ c.execution = ":print_path"
    THEN PrintPathFile(file, p, fep, io, k)
    ELSE file

\* the second launch command is about to be dispatched, the first one having
\* opened the help state over the initial state (Start, StartupDispatch,
\* ApplyNewState, StartupPump, PumpEnd, StartupCheck, StartupDispatch)
HelpOnTop ==
    /\ pc = "apply"
    /\ states = <<NewAppState(0), NewAppState(0)>>
    /\ quitting = FALSE
    /\ launch_at_end = None
    /\ result = "running"
    /\ commands = <<StartupCommand(1), StartupCommand(2)>>
    /\ idx = 2
    /\ cmd = StartupCommand(2)
    /\ orig = StartupCommand(2)
    /\ tl = NoToken
    /\ pumpExit = "none"
    /\ work = 0
    /\ pumpEntry = 0
    /\ painted = 0
    /\ spinner = FALSE
    /\ screen = TRUE
    /\ lastResult = None
    /\ did = {}
    /\ launched = <<>>
    /\ entryDepth = 2
    /\ nested = 0
    /\ cmd_count = 0
    /\ keyChan = <<>>
    /\ ackChan = <<>>
    /\ rpc = "unspawned"
    /\ rkey = None
    /\ keysRead = 0
    /\ sent = 0
    /\ acked = 0

\* the inputs of print_path alone, or of a verb the help state executes
VerbInit ==
    /\ HelpOnTop
    /\ vpc \in {"print_path", "verb"}
    /\ call \in IF vpc = "verb" THEN Calls ELSE {NoCall}
    /\ path \in Paths
    /\ file_export_path \in {None, "out"}
    /\ exportFile \in ExportFiles
    /\ vres = NoResult

\* print_path(path, con)
PrintPath ==
    /\ vpc = "print_path"
    /\ \E io \in IoOutcomes, k \in 0..(Len(ExportLine(path)) - 1) :
          /\ io # "write_fails" => k = 0
          /\ vres' = PrintPathResult(path, file_export_path, io)
          /\ exportFile' = PrintPathFile(exportFile, path, file_export_path, io, k)
    /\ vpc' = "printed"
    /\ UNCHANGED <<call, path, file_export_path>>
    /\ UNCHANGED <<engineVars, relayVars, sharedVars>>

\* the help state's apply hands the verb of the command to execute_verb
HelpExecuteVerb ==
    /\ vpc = "verb"
    /\ \E io \in IoOutcomes, k \in 0..(Len(ExportLine(path)) - 1) :
          /\ io # "write_fails" => k = 0
          /\ vres' = ExecuteVerb(call, path, file_export_path, io)
          /\ exportFile' =
                ExecuteVerbFile(call, exportFile, path, file_export_path, io, k)
    /\ vpc' = "dispatch"
    /\ UNCHANGED <<call, path, file_export_path>>
    /\ UNCHANGED <<engineVars, relayVars, sharedVars>>

\* the Launchable of the model which stands for l
LaunchableKind(l) == l.kind

\* apply_command, the help state's apply giving what execute_verb returned
HelpApplyCommand ==
    /\ vpc = "dispatch"
    /\ pc = "apply"
    /\ nested = 0
    /\ \/ ApplyFail
       \/ ~vres.err /\ vres.result = "Quit" /\ ApplyQuit
       \/ /\ ~vres.err
          /\ vres.result = "Launch"
          /\ ApplyLaunch
          /\ launched' = <<LaunchableKind(vres.launchable)>>
       \/ ~vres.err /\ vres.result = "NewState" /\ ApplyNewState
       \/ ~vres.err /\ vres.result = "PopState" /\ ApplyPopState
       \/ ~vres.err /\ vres.result = "PopStateAndReapply" /\ ApplyPopStateAndReapply
       \/ ~vres.err /\ vres.result = "DisplayError" /\ ApplyDisplayError
       \/ ~vres.err /\ vres.result = "Keep" /\ ApplyKeep

\* the nested apply_command: the state beneath the help state is given the
\* command
BeneathApplyCommand ==
    /\ vpc = "dispatch"
    /\ pc = "apply"
    /\ nested = 1
    /\ ApplyCommand

VerbNext ==
    \/ PrintPath
    \/ HelpExecuteVerb
    \/ HelpApplyCommand
    \/ BeneathApplyCommand

VerbSpec == VerbInit /\ [][VerbNext]_vars

\* ------------------------------------------------------------ properties
\* a step of the main thread which is one call of apply_command (the key thread
\* changes rpc at each of its steps, the main thread never does at "apply")
ApplyStep == pc = "apply" /\ rpc' = rpc

\* C1: from the push of the initial state to the end of run (which drops the
\* App), the stack holds at least one element, whatever the states return
\* (PopState and PopStateAndReapply included)
C1_StackNeverEmpty ==
    /\ [](pc \notin {"start", "failed", "returned"} => states # <<>>)
    /\ [][(states # <<>> /\ pc' \notin {"failed", "returned"}) => states' # <<>>]_vars

\* a pop was asked of the only state, in an interactive dispatch
C1_Witness ==
    /\ Len(states) = 1
    /\ lastResult = "PopState"
    /\ entryDepth = 1
    /\ pc = "ack"

\* C2: on a stack of one element, PopState and PopStateAndReapply both set
\* quitting, pop nothing, refresh nothing (the command is kept) and dispatch
\* nothing again
C2_PopOnSingleQuits ==
    [][(/\ ApplyStep
        /\ Len(states) = 1
        /\ lastResult' \in {"PopState", "PopStateAndReapply"})
       => (/\ quitting'
           /\ Len(states') = 1
           /\ cmd' = cmd
           /\ did' = {}
           /\ launch_at_end' = launch_at_end
           /\ pc' = ReturnPc)]_vars

\* PopStateAndReapply was returned by the only state left, after a nested call
C2_Witness ==
    /\ Len(states) = 1
    /\ lastResult = "PopStateAndReapply"
    /\ nested >= 1
    /\ did = {}
    /\ quitting
    /\ pc = "ack"

\* C3: on a stack of more than one element each PopStateAndReapply removes
\* exactly one element and the command given to the new top is the one which
\* was dispatched first, unchanged at every nested call
C3_ReapplySameCommand ==
    /\ [](pc = "apply" => cmd = orig)
    /\ [][(/\ ApplyStep
            /\ Len(states) > 1
            /\ lastResult' = "PopStateAndReapply")
           => (/\ states' = Pop(states)
               /\ pc' = "apply"
               /\ cmd' = orig
               /\ orig' = orig
               /\ nested' = nested + 1
               /\ quitting' = quitting)]_vars

\* two states were popped by one dispatch and the third call is about to start
C3_Witness ==
    /\ pc = "apply"
    /\ nested = 2
    /\ entryDepth = 3
    /\ Len(states) = 1
    /\ Len(orig) >= 2

\* the main thread is inside do_pending_tasks
InPump == pc \in {"pump_loop", "pump_end"}

\* a step of the main thread which is one turn of the pump's loop
PumpStep == pc = "pump_loop" /\ rpc' = rpc /\ pc' # "failed"

\* C4: the token made in the interactive loop while the counter is K is found
\* expired by the pump exactly when the counter differs from K at the check;
\* the pump of the launch commands holds an Unlimited token, never found expired
C4_TokenExpiry ==
    /\ []((InPump /\ ~Spawned) => (tl.kind = "Unlimited" /\ pumpExit # "expired"))
    /\ []((InPump /\ Spawned) => (tl.kind = "Limited" /\ tl.snap <= cmd_count))
    /\ [][(pc = "loop_top" /\ pc' \in {"pump_loop", "pump_end"})
           => (tl'.kind = "Limited" /\ tl'.snap = cmd_count)]_vars
    /\ [][PumpStep => ((pumpExit' = "expired")
                        <=> (tl.kind # "Unlimited" /\ cmd_count # tl.snap))]_vars

\* a pump of the interactive loop was left because its token expired
C4_Witness ==
    /\ pc = "pump_end"
    /\ pumpExit = "expired"
    /\ tl.kind = "Limited"
    /\ cmd_count = tl.snap + 1
    /\ HasPendingTasks(states)

\* the key thread has counted a key which the main thread has not received yet
KeyWaiting == Spawned /\ (rpc = "send" \/ keyChan # <<>>)

\* C5: once the next key is read and counted, the pump started after the
\* dispatch of a key (its acknowledgment was received) does no further unit of
\* work before that next key is dispatched, in every interleaving of the count
\* with the making of the token
C5_PumpStopsOnNextKey ==
    [][(PumpStep /\ acked >= 1 /\ KeyWaiting)
       => (states' = states /\ pumpExit' = "expired")]_vars

\* C6: the key thread never sends a key before the acknowledgment of the
\* previous one: at most one key is sent and not acknowledged
C6_OneKeyInFlight ==
    /\ sent <= acked + 1
    /\ Len(keyChan) <= 1
    /\ Len(ackChan) <= 1
    /\ (rpc \in {"read", "count", "send"} => sent = acked)

\* the second key is in flight, the first one was acknowledged
C6_Witness ==
    /\ sent = 2
    /\ acked = 1
    /\ keyChan # <<>>
    /\ pc = "recv"

\* C7: the key thread is not inside its read of the terminal while the main
\* thread reacts to a key (apply_command, then the acknowledgment), nor while
\* quitting is set
C7_NoReadWhileReacting ==
    /\ rpc = "read" => (pc \notin {"apply", "ack"} /\ ~quitting)
    /\ (Spawned /\ pc \in {"apply", "ack"}) => rpc = "wait_ack"

\* the thread reads the next key, the first one being fully handled
C7_Witness ==
    /\ rpc = "read"
    /\ acked = 1
    /\ Len(states) = 2
    /\ pc = "pump_loop"

\* C8 as the spec words it: only the main thread writes the counter, once per
\* key it accepts
C8_EngineOnlyWriter ==
    [][cmd_count' # cmd_count
       => (rpc' = rpc /\ pc = "recv" /\ cmd_count' = cmd_count + 1)]_vars

\* C8: the counter is written only by the key thread, which adds one for each
\* key event it has read, before sending it; the main thread never writes it
C8_RelayOnlyWriter ==
    /\ [](cmd_count + (IF rpc = "count" THEN 1 ELSE 0) = keysRead)
    /\ [][cmd_count' # cmd_count
           => (/\ rpc = "count"
               /\ rpc' = "send"
               /\ cmd_count' = cmd_count + 1
               /\ UNCHANGED engineVars)]_vars

\* the second key is counted while the main thread is busy in the pump
C8_Witness ==
    /\ cmd_count = 2
    /\ rpc = "send"
    /\ pc = "pump_loop"

\* C9: the launchable a state returns is stored, with quitting set, and is
\* what run returns; no later dispatch replaces or clears it
C9_LaunchReturned ==
    launched # <<>> =>
        /\ Len(launched) = 1
        /\ quitting
        /\ pc # "apply"
        /\ (pc \notin {"returned", "failed"} => launch_at_end = launched[1])
        /\ (pc = "returned" => result = launched[1])

\* run has returned the launchable which a pushed state gave for a key
C9_Witness ==
    /\ pc = "returned"
    /\ result = "SystemOpen"
    /\ lastResult = "Launch"
    /\ entryDepth = 2
    /\ Spawned

\* the last dispatch ended by Quit, returned by the only state of the stack
QuitFromSole == lastResult = "Quit" /\ entryDepth = nested + 1

\* C10: after Quit from the only state, run ends (unless a write fails, it
\* returns) and what it returns holds no launchable
C10_QuitTerminates ==
    /\ []((QuitFromSole /\ pc = "returned") => result = None)
    /\ (QuitFromSole ~> ((pc = "returned" /\ result = None) \/ pc = "failed"))

\* run has returned None after the Quit given for a key
C10_Witness ==
    /\ QuitFromSole
    /\ pc = "returned"
    /\ result = None
    /\ Spawned
    /\ rpc = "done"

\* C11: on NewState the stack grows by exactly one state, which becomes the
\* active one, and apply_command returns the command given with the state:
\* nothing but a dispatch changes it afterwards, and the next key is appended
\* to it
C11_NewStateCommand ==
    /\ [][(ApplyStep /\ lastResult' = "NewState" /\ pc' # "failed")
           => (/\ Len(states') = Len(states) + 1
               /\ Pop(Pop(states')) = Pop(states)
               /\ cmd' = NewStateCommand
               /\ pc' = ReturnPc
               /\ quitting' = quitting
               /\ launch_at_end' = launch_at_end)]_vars
    /\ [][(pc \notin {"apply", "recv", "startup"} /\ ~MainGone') => cmd' = cmd]_vars
    /\ [][(pc = "recv" /\ pc' = "apply")
           => \E k \in Keys : cmd' = AddKey(cmd, k) /\ orig' = cmd']_vars

\* the key which follows a NewState is dispatched, appended to the command
\* which came with the new state
C11_Witness ==
    /\ pc = "apply"
    /\ nested = 0
    /\ Len(states) = 2
    /\ cmd = AddKey(NewStateCommand, "k")
    /\ acked = 1

\* C12: on DisplayError the stack keeps its depth, its active state and the
\* states below it, quitting and the launchable are left as they were, and the
\* branch does nothing but write the message as the status
C12_DisplayErrorFrame ==
    [][(ApplyStep /\ lastResult' = "DisplayError" /\ pc' # "failed")
       => (/\ Len(states') = Len(states)
           /\ Pop(states') = Pop(states)
           /\ quitting' = quitting
           /\ launch_at_end' = launch_at_end
           /\ did' = {"write_status_err"}
           /\ pc' = ReturnPc)]_vars

\* a pushed state has answered a key by an error message
C12_Witness ==
    /\ pc = "ack"
    /\ lastResult = "DisplayError"
    /\ did = {"write_status_err"}
    /\ Len(states) = 2
    /\ ~quitting
    /\ launch_at_end = None

\* C13: when the token of do_pending_tasks is not expired (no key was counted
\* since it was made, or it is Unlimited), the loop entered with N units of
\* pending work ends after exactly N calls of do_pending_task, because no work
\* remains
C13_PumpToCompletion ==
    /\ [](InPump => work + Top(states).pending = pumpEntry)
    /\ []((pc = "pump_end" /\ pumpEntry > 0 /\ ~IsExpired(tl, cmd_count))
           => (/\ pumpExit = "done"
               /\ work = pumpEntry
               /\ ~HasPendingTasks(states)))
    /\ [][(PumpStep /\ ~IsExpired(tl, cmd_count))
           => (/\ work' = work + 1
               /\ Top(states').pending = Top(states).pending - 1
               /\ pumpExit' # "expired"
               /\ (pc' = "pump_end" <=> work' = pumpEntry))]_vars

\* the loop of an interactive pump has done its two units, no key being counted
C13_Witness ==
    /\ pc = "pump_end"
    /\ pumpEntry = 2
    /\ work = 2
    /\ pumpExit = "done"
    /\ tl.kind = "Limited"
    /\ cmd_count = tl.snap

\* do_pending_tasks has returned: its final display is made
PumpReturned == painted = 1

\* C14: when the token is found expired once one unit of work is done, of a
\* state which holds more, the loop ends there by expiry: one call of
\* do_pending_task was made, and the final display is still made
C14_ExpiryAfterOneStep ==
    /\ [][(PumpStep /\ work = 1 /\ IsExpired(tl, cmd_count))
           => (/\ pc' = "pump_end"
               /\ pumpExit' = "expired"
               /\ work' = 1
               /\ states' = states)]_vars
    /\ [][(pc = "pump_end" /\ pumpExit = "expired" /\ rpc' = rpc /\ pc' # "failed")
           => (PumpReturned' /\ pumpExit' = "expired" /\ work' = work)]_vars

\* a pump entered with two units has returned after one, its token expired
C14_Witness ==
    /\ pc = "recv"
    /\ PumpReturned
    /\ pumpExit = "expired"
    /\ pumpEntry = 2
    /\ work = 1
    /\ HasPendingTasks(states)

\* C19: a call of do_pending_tasks which does not fail ends by exactly one
\* final display; entered without a pending task it does nothing else (no turn
\* of the loop: no status, no spinner, no unit of work); entered with one, the
\* spinner its loop displayed is removed before it returns, whether the loop
\* ended by expiry (without any unit of work when the token is found expired
\* at the first turn) or because no work remained
C19_PumpEnds ==
    /\ [](painted <= 1 /\ (InPump => painted = 0) /\ (~InPump => ~spinner))
    /\ [][(InPump /\ ~InPump' /\ pc' # "failed") => (PumpReturned' /\ ~spinner')]_vars
    /\ []((InPump /\ pumpEntry = 0)
           => (pc = "pump_end" /\ work = 0 /\ ~spinner /\ pumpExit = "none"))
    /\ []((PumpReturned /\ pumpEntry = 0) => (work = 0 /\ pumpExit = "none"))
    /\ []((pc = "pump_end" /\ pumpEntry > 0)
           => (spinner /\ pumpExit \in {"expired", "done"}))
    /\ []((PumpReturned /\ pumpEntry > 0) => pumpExit \in {"expired", "done"})
    /\ [][(PumpStep /\ IsExpired(tl, cmd_count))
           => (pumpExit' = "expired" /\ work' = work /\ states' = states)]_vars

\* a pump whose token was expired at the first turn of its loop has returned:
\* no unit of work, the spinner removed, the final display made
C19_Witness ==
    /\ pc = "recv"
    /\ PumpReturned
    /\ pumpEntry > 0
    /\ pumpExit = "expired"
    /\ work = 0
    /\ ~spinner

\* a step by which the key thread ends
RelayEnds == ~RelayGone /\ RelayGone'

\* C15 as the spec words it: the key thread ends only by receiving the
\* acknowledgment true
C15_OnlyAckEnds ==
    [][RelayEnds => (rpc = "wait_ack" /\ ackChan # <<>> /\ Head(ackChan))]_vars

\* C15: the key thread ends by receiving the acknowledgment true, or at its
\* read when the key source is exhausted (no key being then in flight), or by
\* the panic of an unwrap when run has ended by an error; it ends in no other
\* way, and never by an acknowledgment false
C15_RelayEnds ==
    /\ [][RelayEnds
           => \/ /\ rpc = "wait_ack"
                 /\ ackChan # <<>>
                 /\ Head(ackChan)
                 /\ rpc' = "done"
              \/ /\ rpc = "read"
                 /\ sent = acked
                 /\ keyChan = <<>>
                 /\ rpc' = "done"
              \/ /\ rpc \in {"send", "wait_ack"}
                 /\ pc = "failed"
                 /\ rpc' = "panicked"]_vars
    /\ [](rpc = "panicked" => pc = "failed")

\* the thread has ended on the end of its key source, after a key which was
\* acknowledged by false: the main thread finds the key channel closed
C15_Witness ==
    /\ rpc = "done"
    /\ keysRead = 1
    /\ acked = 1
    /\ ~quitting
    /\ pc = "recv"

\* C16: when the main thread, waiting for a key, finds the key channel closed
\* (the key thread has ended and no key is in flight), run returns Ok with
\* what launch_at_end holds, never an error; and run returns from its
\* interactive loop in no other way
C16_ClosedChannelReturns ==
    /\ [][(pc = "recv" /\ keyChan = <<>> /\ RelayGone /\ pc' # pc)
           => (/\ pc' = "returned"
               /\ result' = launch_at_end
               /\ result' \in Launchables \cup {None})]_vars
    /\ [][(Spawned /\ pc # "returned" /\ pc' = "returned")
           => (pc = "recv" /\ keyChan = <<>> /\ RelayGone)]_vars
    /\ []((Spawned /\ pc = "returned") => (RelayGone /\ result # "Err"))

\* the input ended before any key: run has returned Ok(None), quitting not set
C16_Witness ==
    /\ pc = "returned"
    /\ Spawned
    /\ rpc = "done"
    /\ keysRead = 0
    /\ ~quitting
    /\ result = None

\* the key thread is inside its loop: it reads the terminal or will do so
RelayAlive == rpc \in {"read", "count", "send", "wait_ack"}

\* C17: run never executes the launchable: it stores it and hands it over as
\* its result; when it has returned (the caller can execute the launchable
\* from then on) launch_at_end is taken, the App and the Screen are dropped
\* and the key thread is not reading the terminal: it was never spawned or it
\* has ended
C17_LaunchAfterTeardown ==
    /\ [](pc = "returned"
          => (/\ states = <<>>
              /\ ~screen
              /\ launch_at_end = None
              /\ ~RelayAlive
              /\ rpc # "panicked"))
    /\ []((launch_at_end # None) => (screen /\ states # <<>> /\ result = "running"))
    /\ [][(launch_at_end # None /\ launch_at_end' # launch_at_end)
           => (MainGone' /\ result' \in {launch_at_end, "Err"})]_vars

\* run has returned a launchable asked by a key: the Screen is dropped and the
\* key thread has ended by the acknowledgment of this key
C17_Witness ==
    /\ pc = "returned"
    /\ result \in Launchables
    /\ ~screen
    /\ states = <<>>
    /\ rpc = "done"
    /\ sent = 1
    /\ acked = 1

\* C18: the launch commands are dispatched one at a time in their order, each
\* followed by a pump whose token is Unlimited and which ends only when the
\* active state holds no pending work; once quitting is set by one of them,
\* the pump of this command is the last thing done: run returns what
\* launch_at_end holds, no other launch command is dispatched and the key
\* thread is not spawned
C18_StartupCommands ==
    /\ []((pc = "apply" /\ ~Spawned)
          => (idx <= Len(commands) /\ orig = StartupCommand(idx) /\ ~quitting))
    /\ [][idx' # idx
           => (idx' = idx + 1 /\ pc = "startup_check" /\ ~quitting)]_vars
    /\ [][(pc = "startup" /\ pc' = "apply") => cmd' = StartupCommand(idx)]_vars
    /\ [][(~Spawned /\ pc = "apply" /\ pc' \notin {"apply", "failed"})
           => pc' = "startup_pump"]_vars
    /\ []((~Spawned /\ InPump) => tl = Unlimited)
    /\ [](pc = "startup_check"
          => (PumpReturned /\ ~HasPendingTasks(states) /\ pumpExit # "expired"))
    /\ [][(pc = "startup_check" /\ quitting /\ pc' # pc)
           => (/\ pc' = "returned"
               /\ result' = launch_at_end
               /\ idx' = idx
               /\ ~Spawned')]_vars
    /\ []((~Spawned /\ quitting) => pc \notin {"startup", "apply"})
    /\ [][(~Spawned /\ Spawned') => (~quitting /\ idx = Len(commands) + 1)]_vars

\* the first of two launch commands has given a launchable: after the pump of
\* the work the state held, run has returned it, the second command not being
\* dispatched and the key thread not spawned
C18_Witness ==
    /\ pc = "returned"
    /\ ~Spawned
    /\ Len(commands) = 2
    /\ idx = 1
    /\ result \in Launchables
    /\ work >= 1
    /\ pumpExit = "done"

\* C20: on PopState with more than one state on the stack, exactly one state
\* is removed, quitting and the launchable are left as they were, and the
\* command apply_command returns is the one the refresh of the new top gives,
\* not the one which was dispatched
C20_PopStateRefreshes ==
    [][(ApplyStep /\ Len(states) > 1 /\ lastResult' = "PopState" /\ pc' # "failed")
       => (/\ states' = Pop(states)
           /\ quitting' = quitting
           /\ launch_at_end' = launch_at_end
           /\ cmd' = Refresh(Top(states'))
           /\ cmd' # orig
           /\ did' = {"pop", "refresh", "write_status"}
           /\ pc' = ReturnPc)]_vars

\* the second of three states was popped to by a key: the command in play is
\* the one its refresh gave
C20_Witness ==
    /\ pc = "ack"
    /\ lastResult = "PopState"
    /\ entryDepth = 3
    /\ Len(states) = 2
    /\ nested = 0
    /\ cmd = Refresh(Top(states))
    /\ ~quitting

\* C21: the depth of the stack changes only by a NewState (one more) and by a
\* PopState or PopStateAndReapply on more than one state (one less); Keep,
\* RefreshState, Quit and Launch leave the stack as it is (but for what the
\* active state did to its own data), Keep and RefreshState leave quitting and
\* the launchable as they are, Keep returns the command it was given and
\* RefreshState the one the refresh of the active state gives
C21_StackFrame ==
    /\ [][(Len(states') # Len(states) /\ pc # "start" /\ ~MainGone')
           => /\ ApplyStep
              /\ \/ /\ lastResult' = "NewState"
                    /\ Len(states') = Len(states) + 1
                 \/ /\ lastResult' \in {"PopState", "PopStateAndReapply"}
                    /\ Len(states) > 1
                    /\ states' = Pop(states)]_vars
    /\ [][(/\ ApplyStep
            /\ lastResult' \in {"Keep", "RefreshState", "Quit", "Launch"}
            /\ pc' # "failed")
           => (/\ Len(states') = Len(states)
               /\ Pop(states') = Pop(states)
               /\ pc' = ReturnPc)]_vars
    /\ [][(ApplyStep /\ lastResult' \in {"Keep", "RefreshState"} /\ pc' # "failed")
           => (/\ quitting' = quitting
               /\ launch_at_end' = launch_at_end
               /\ cmd' = IF lastResult' = "Keep" THEN cmd
                                                ELSE Refresh(Top(states')))]_vars

\* a pushed state has answered a key by RefreshState: the stack is as deep as
\* it was and the command in play is the one its refresh gave
C21_Witness ==
    /\ pc = "ack"
    /\ lastResult = "RefreshState"
    /\ entryDepth = 2
    /\ Len(states) = 2
    /\ cmd = Refresh(Top(states))
    /\ cmd # orig
    /\ ~quitting

\* C22: a call of apply_command ends: each nested call follows a pop, so the
\* nested calls of one dispatch and the depth of the stack add up to the depth
\* at entry, the stack never gets empty, and a PopStateAndReapply of the only
\* state left ends the dispatch with quitting set: there are at most (depth at
\* entry - 1) nested calls, and a call which does not leave apply_command
\* leaves a stack one state shorter, which can happen only so many times
C22_DispatchTerminates ==
    /\ [](pc = "apply" => (Len(states) >= 1 /\ nested + Len(states) = entryDepth))
    /\ [](nested + 1 <= entryDepth \/ (entryDepth = 0 /\ nested = 0))
    /\ [][(ApplyStep /\ pc' = "apply")
           => (/\ lastResult' = "PopStateAndReapply"
               /\ Len(states) > 1
               /\ Len(states') = Len(states) - 1
               /\ nested' = nested + 1)]_vars
    /\ [][(/\ ApplyStep
            /\ Len(states) = 1
            /\ lastResult' = "PopStateAndReapply"
            /\ pc' # "failed")
           => (pc' = ReturnPc /\ quitting' /\ nested' = nested)]_vars
    /\ [][(pc = "apply" /\ pc' = "apply" /\ rpc' = rpc)
           => (Len(states') < Len(states) /\ Len(states') >= 1)]_vars
    /\ [](pc = "apply" => ENABLED ApplyCommand)

\* a key given to the third state of the stack was redispatched twice, and the
\* only state left asked for one more pop: the dispatch has ended by quitting
C22_Witness ==
    /\ pc = "ack"
    /\ entryDepth = 3
    /\ nested = 2
    /\ Len(states) = 1
    /\ lastResult = "PopStateAndReapply"
    /\ quitting

\* C27: quitting starts false and never goes back from true to false; the
\* deferred action starts absent and is present only while quitting is true;
\* it is set at most once in a run, by a Launch branch which finds it absent,
\* and only run's return (or its failure) takes it away
C27_QuitMonotone ==
    /\ (pc = "start" => (~quitting /\ launch_at_end = None))
    /\ [][quitting => quitting']_vars
    /\ [](launch_at_end # None => quitting)
    /\ [](Len(launched) <= 1)
    /\ [][launch_at_end' # launch_at_end
           => \/ /\ launch_at_end = None
                 /\ launched = <<>>
                 /\ ApplyStep
                 /\ lastResult' = "Launch"
                 /\ launched' = <<launch_at_end'>>
                 /\ quitting'
              \/ /\ launch_at_end' = None
                 /\ MainGone'
                 /\ quitting]_vars

\* the Launch branch has stored a Printer and set quitting; the main thread
\* is about to tell the relay
C27_Witness ==
    /\ pc = "ack"
    /\ lastResult = "Launch"
    /\ launch_at_end = "Printer"
    /\ launched = <<"Printer">>
    /\ quitting

\* a step of the main thread in which the active state does one pending task
TaskStep == pc = "pump_loop" /\ work' = work + 1

\* C26 as the claim words it: once quitting is set, no state's apply and no
\* state's do_pending_task is invoked any more, on either path
C26_NoWorkAfterQuit ==
    /\ [][ApplyStep => ~quitting]_vars
    /\ [][TaskStep => ~quitting]_vars

\* C26: once quitting is set, no state's apply is invoked any more, on either
\* path, and no do_pending_task in the interactive loop, which skips the pump;
\* the pump which follows the dispatch of a launch command is not skipped: it
\* runs with its Unlimited token whether or not that dispatch set quitting,
\* and run returns right after it
C26_NoWorkAfterQuit_Amended ==
    /\ [][ApplyStep => ~quitting]_vars
    /\ [](pc = "apply" => ~quitting)
    /\ [][(TaskStep /\ quitting)
           => (~Spawned /\ tl = Unlimited /\ lastResult # None)]_vars
    /\ []((Spawned /\ quitting) => ~InPump)
    /\ [][(pc = "loop_top" /\ quitting /\ pc' # pc)
           => (pc' = "recv" /\ states' = states)]_vars
    /\ [][(pc = "startup_check" /\ quitting) => MainGone']_vars

\* the launch command was answered by Quit and left the state a pending task:
\* the pump after it has done the task, with quitting set
C26_Witness ==
    /\ pc = "pump_end"
    /\ ~Spawned
    /\ quitting
    /\ lastResult = "Quit"
    /\ work = 1
    /\ pumpExit = "done"

\* the main thread is blocked in rx_keys.recv(): no key in flight, the sender
\* alive
EngineBlocked == pc = "recv" /\ keyChan = <<>> /\ ~RelayGone

\* the key thread is blocked in rx_quit.recv(): no acknowledgment in flight,
\* the sender alive
RelayBlocked == rpc = "wait_ack" /\ ackChan = <<>> /\ ~MainGone

\* C28: the main thread and the key thread never wait for each other: they
\* are never both blocked on their channels. While the key thread waits for
\* an acknowledgment, its key is in flight or being dispatched, and it or the
\* main thread can take a step; while the main thread waits for a key, the key
\* thread is reading the terminal, about to send, or about to receive the
\* acknowledgment already sent to it, and one of the two can take a step. A
\* key thread left waiting by a main thread which failed is ended by the
\* closed channel, and a main thread left waiting by a key thread which ended
\* is woken likewise
C28_NoDeadlock ==
    /\ [](~(EngineBlocked /\ RelayBlocked))
    /\ [](RelayBlocked
           => \/ pc \in {"apply", "ack"}
              \/ /\ pc \in {"loop_top", "pump_loop", "pump_end", "recv"}
                 /\ keyChan # <<>>)
    /\ [](EngineBlocked
           => \/ rpc \in {"read", "count", "send"}
              \/ rpc = "wait_ack" /\ ackChan # <<>>)
    /\ [][(rpc = "wait_ack" /\ ackChan = <<>> /\ MainGone /\ rpc' # rpc)
           => rpc' = "panicked"]_vars
    /\ [](rpc = "wait_ack" => ENABLED (RelayRecvAck \/ RelayAckClosed \/ Engine))
    /\ [](pc = "recv" => ENABLED (RecvKey \/ RecvClosed \/ Relay))

\* the dispatch of the second key failed while the key thread waited for its
\* acknowledgment: the thread was woken by the closed channel and has ended
C28_Witness ==
    /\ pc = "failed"
    /\ rpc = "panicked"
    /\ sent = 2
    /\ acked = 1
    /\ ackChan = <<>>

\* C23: in the interactive loop, a dispatch which has set quitting is
\* followed by the send of true on tx_quit; the key thread, which has read no
\* key since the one dispatched, receives it and returns without reading
\* another; no key is then in flight, the key channel closes, the main thread's
\* recv gives Err and run returns: the main thread does not stay blocked
C23_QuitHandshake ==
    /\ [][(pc = "ack" /\ quitting /\ pc' # pc)
           => (ackChan' = <<TRUE>> /\ pc' = "loop_top")]_vars
    /\ [][(Spawned /\ quitting) => (keysRead' = keysRead /\ sent' = sent)]_vars
    /\ [][(rpc = "wait_ack" /\ quitting /\ rpc' # rpc /\ ~MainGone)
           => (rpc' = "done" /\ Head(ackChan))]_vars
    /\ []((Spawned /\ quitting /\ pc \in {"loop_top", "recv"}) => keyChan = <<>>)
    /\ [][(Spawned /\ quitting /\ pc = "recv" /\ pc' # pc)
           => (RelayGone /\ pc' = "returned")]_vars
    /\ ((Spawned /\ quitting /\ pc = "ack") ~> (pc = "returned" /\ rpc = "done"))

\* the second key popped the only state: true was acknowledged, the key thread
\* returned having read two keys, and run returned
C23_Witness ==
    /\ pc = "returned"
    /\ quitting
    /\ lastResult = "PopState"
    /\ rpc = "done"
    /\ keysRead = 2
    /\ acked = 2
    /\ ackChan = <<>>

\* the verbs which the help state takes for a toggle
ToggleVerbs == {":toggle", ":toggle_hidden"}

\* execute_verb has returned r without an error
Returned(r) == vpc = "dispatch" /\ vres = OkResult(r)

\* C24: executed by the help state without a match error, a verb whose
\* execution starts with ":toggle" gives PopStateAndReapply, ":back" gives
\* PopState, ":quit" gives Quit and ":help" gives Keep, none of them touching
\* the export file; with a match error each gives DisplayError instead. On
\* PopStateAndReapply from a help state which sits on another state, the
\* engine removes the help state and gives the same command to the state
\* beneath, which is then the only one to answer it
C24_HelpVerbs ==
    /\ []((vpc = "dispatch" /\ ~call.match_error)
           => /\ call.execution \in ToggleVerbs => Returned("PopStateAndReapply")
              /\ call.execution = ":back" => Returned("PopState")
              /\ call.execution = ":quit" => Returned("Quit")
              /\ call.execution = ":help" => Returned("Keep"))
    /\ []((vpc = "dispatch" /\ call.match_error) => Returned("DisplayError"))
    /\ []((vpc = "dispatch" /\ vres.result = "PopStateAndReapply")
           => (~call.match_error /\ StartsWith(call.execution, ":toggle")))
    /\ [][(vpc = "verb" /\ vpc' = "dispatch"
             /\ call.execution \in ToggleVerbs \cup {":back", ":quit", ":help"})
           => exportFile' = exportFile]_vars
    /\ [][(Returned("PopStateAndReapply") /\ pc = "apply" /\ nested = 0
             /\ pc' # "failed")
           => (/\ states' = Pop(states)
               /\ Len(states') = 1
               /\ cmd' = cmd
               /\ pc' = "apply"
               /\ nested' = 1
               /\ ~quitting')]_vars
    /\ [](nested = 1 => Returned("PopStateAndReapply"))
    /\ []((nested = 1 /\ pc = "apply") => (cmd = orig /\ Len(states) = 1))

\* ":toggle_hidden" was given to the help state: the help state is gone and
\* the state beneath has answered the command by Keep
C24_Witness ==
    /\ Returned("PopStateAndReapply")
    /\ call.execution = ":toggle_hidden"
    /\ nested = 1
    /\ pc = "startup_pump"
    /\ lastResult = "Keep"
    /\ Len(states) = 1
    /\ cmd = StartupCommand(2)

\* the number of lines which end in c
Lines(c) == Cardinality({i \in 1..Len(c) : c[i] = "\n"})

\* the path is valid UTF-8
ValidUtf8(p) == \A i \in 1..Len(p) : p[i] # "xFF"

\* print_path has just returned
PrintPathStep == vpc = "print_path" /\ vpc' = "printed"

\* C25 as the claim words it: with an export path, print_path appends the
\* path as one line and returns Quit with no launchable, or fails and returns
\* an error; without one, it returns Launch with a Printer which holds exactly
\* the path, and writes nothing
C25_PrintPathExact ==
    [][PrintPathStep
        => IF file_export_path # None
           THEN \/ vres' = ErrResult
                \/ /\ vres' = OkResult("Quit")
                   /\ exportFile'.content = exportFile.content \o path \o <<"\n">>
                   /\ Lines(exportFile'.content) = Lines(exportFile.content) + 1
           ELSE /\ vres'.result = "Launch"
                /\ vres'.launchable.kind = "Printer"
                /\ Bytes(vres'.launchable.to_print) = path
                /\ exportFile' = exportFile]_vars

\* C25: with an export path, print_path appends to the export file (created
\* when absent, what it held kept) the path as text, U+FFFD standing for what
\* is not valid UTF-8, and a line feed, and returns Quit with no launchable;
\* a failure to open or write the file is returned as an error, without a
\* result, the line not being written whole. Without an export path it writes
\* nothing and returns Launch with a Printer which holds that same text. The
\* text is exactly the path when the path is valid UTF-8, and it is one line
\* when the path holds no line feed. Given by the help state for
\* ":print_path", Quit leaves the engine quitting without a launchable, Launch
\* leaves it quitting with the Printer stored, and the error ends run
C25_PrintPath ==
    /\ [][PrintPathStep
           => IF file_export_path # None
              THEN \/ /\ vres' = ErrResult
                      /\ \E k \in 0..Len(Bytes(ToStringLossy(path))) :
                            /\ exportFile'.content
                                 = exportFile.content
                                   \o SubSeq(Bytes(ToStringLossy(path)), 1, k)
                            /\ exportFile'.content
                                 # exportFile.content
                                   \o Bytes(ToStringLossy(path)) \o <<"\n">>
                   \/ /\ vres' = OkResult("Quit")
                      /\ exportFile'.exists
                      /\ exportFile'.content
                           = exportFile.content
                             \o Bytes(ToStringLossy(path)) \o <<"\n">>
                      /\ ValidUtf8(path)
                           => exportFile'.content
                                = exportFile.content \o path \o <<"\n">>
                      /\ (\A i \in 1..Len(path) : path[i] # "\n")
                           => Lines(exportFile'.content)
                                = Lines(exportFile.content) + 1
              ELSE /\ vres' = OkLaunch(Printer(ToStringLossy(path)))
                   /\ ValidUtf8(path) => Bytes(vres'.launchable.to_print) = path
                   /\ exportFile' = exportFile]_vars
    /\ []((vpc = "dispatch" /\ call.execution = ":print_path" /\ ~call.match_error)
           => /\ vres.err => pc \in {"apply", "failed"}
              /\ pc = "startup_pump"
                   => /\ quitting
                      /\ file_export_path # None
                           => (lastResult = "Quit" /\ launch_at_end = None)
                      /\ file_export_path = None
                           => (lastResult = "Launch" /\ launch_at_end = "Printer"))

\* the path "aa" was appended as a line to an export file which held a line,
\* and print_path returned Quit
C25_Witness ==
    /\ vpc = "printed"
    /\ file_export_path = "out"
    /\ path = <<"a", "a">>
    /\ vres = OkResult("Quit")
    /\ exportFile = [exists |-> TRUE, content |-> <<"a", "\n", "a", "a", "\n">>]
====
